---------------------------- MODULE Spec2Model ----------------------------
(***************************************************************************)
(* The monthly forecast engine of app.py (generate_forecast) and the       *)
(* script around it: the driver widgets, the call, the EBITDA margin       *)
(* column derived from the returned frame, and Streamlit's rerun of the    *)
(* script on a widget interaction.                                         *)
(*                                                                         *)
(* Numbers.  Python floats are modelled as exact rationals [n, d] in       *)
(* lowest terms (real arithmetic: the rounding of IEEE doubles is not      *)
(* modelled).  A Python number is [re, im, cx]: cx says that its type is   *)
(* complex, which is what a negative float raised to a fractional power    *)
(* is.  The one irrational operation, x ** (month_num/12), is given by     *)
(* its values rounded to two decimals (PowValues), which keeps every       *)
(* numerator and denominator within 32 bits.  A cell of the derived margin *)
(* column carries its kind: "float", "complex", "inf", "-inf" or "nan".    *)
(***************************************************************************)
EXTENDS Integers, Sequences, FiniteSets, TLC

VARIABLES
    corp_growth,        \* widget values (module globals)
    fund_growth,
    advisory_growth,
    revenue_retention,
    wage_inflation,
    q1_seasonality,
    pc,                 \* where the script is
    i,                  \* enumerate index of the month loop
    data,               \* the list generate_forecast appends to
    season_factor,      \* loop locals of the last iteration
    inflation_impact,
    draws,              \* the values np.random.normal returned in this call
    df_monthly,         \* the frame the call returned (then with EBITDA_Margin)
    prev                \* the drivers, draws and frame of the previous script run

vars == <<corp_growth, fund_growth, advisory_growth, revenue_retention,
          wage_inflation, q1_seasonality, pc, i, data, season_factor,
          inflation_impact, draws, df_monthly, prev>>

----------------------------------------------------------------------------
(* Exact rational arithmetic. *)

Abs(x) == IF x < 0 THEN -x ELSE x

RECURSIVE GCD(_, _)
GCD(a, b) == IF b = 0 THEN a ELSE GCD(b, a % b)

\* n/d in lowest terms with a positive denominator (d # 0)
R(n, d) ==
    LET g == GCD(Abs(n), Abs(d))
        s == IF d < 0 THEN -1 ELSE 1
    IN  [n |-> s * (n \div g), d |-> s * (d \div g)]

RInt(n) == [n |-> n, d |-> 1]

RNeg(a) == [n |-> -a.n, d |-> a.d]

RAdd(a, b) ==
    LET g == GCD(a.d, b.d)
    IN  R(a.n * (b.d \div g) + b.n * (a.d \div g), (a.d \div g) * b.d)

RSub(a, b) == RAdd(a, RNeg(b))

RMul(a, b) ==
    LET g1 == GCD(Abs(a.n), b.d)
        g2 == GCD(Abs(b.n), a.d)
    IN  R((a.n \div g1) * (b.n \div g2), (a.d \div g2) * (b.d \div g1))

\* a / b for b # 0
RDiv(a, b) == RMul(a, R(b.d, b.n))

----------------------------------------------------------------------------
(* Python numbers: float (cx = FALSE, im = 0) or complex. *)

F(q) == [re |-> q, im |-> RInt(0), cx |-> FALSE]

NAdd(x, y) ==
    [re |-> RAdd(x.re, y.re),
     im |-> IF x.im.n = 0 THEN y.im ELSE IF y.im.n = 0 THEN x.im
            ELSE RAdd(x.im, y.im),
     cx |-> x.cx \/ y.cx]

NNeg(x) == [re |-> RNeg(x.re), im |-> RNeg(x.im), cx |-> x.cx]

NSub(x, y) == NAdd(x, NNeg(y))

NMul(x, y) ==
    IF x.im.n = 0 /\ y.im.n = 0
    THEN [re |-> RMul(x.re, y.re), im |-> RInt(0), cx |-> x.cx \/ y.cx]
    ELSE [re |-> RSub(RMul(x.re, y.re), RMul(x.im, y.im)),
          im |-> RAdd(RMul(x.re, y.im), RMul(x.im, y.re)),
          cx |-> x.cx \/ y.cx]

IsZero(x) == x.re.n = 0 /\ x.im.n = 0

----------------------------------------------------------------------------
(* Program constants. *)

NumMonths == 12

MonthAbbr == <<"Jan", "Feb", "Mar", "Apr", "May", "Jun",
               "Jul", "Aug", "Sep", "Oct", "Nov", "Dec">>

base_corp == RDiv(RInt(690), RInt(12))
base_fund == RDiv(RInt(290), RInt(12))
base_adv  == RDiv(RInt(170), RInt(12))
base_cost == RDiv(RInt(520), RInt(12))
base_opex == RDiv(RInt(285), RInt(12))

\* a local that no statement has assigned yet
Unset == [n |-> 0, d |-> 0]

----------------------------------------------------------------------------
(* x ** e for a float x and a float exponent e > 0.                        *)
(* An integral exponent gives the exact power.  A fractional exponent      *)
(* gives 0.0 for x = 0, a positive float for x > 0, and a complex number   *)
(* (no exception) for x < 0; these values are tabulated, rounded to two    *)
(* decimals, for the bases the driver sets below produce:                  *)
(* PowValues[<<x.n, x.d>>][m] = x ** (m/12), m in 1..11.                    *)

H(a) == F(R(a, 100))

Z(a, b) == [re |-> R(a, 100), im |-> R(b, 100), cx |-> TRUE]

PowValues ==
    (<<26, 25>>   :> << H(100), H(101), H(101), H(101), H(102), H(102),
                        H(102), H(103), H(103), H(103), H(104) >>)
 @@ (<<109, 100>> :> << H(101), H(101), H(102), H(103), H(104), H(104),
                        H(105), H(106), H(107), H(107), H(108) >>)
 @@ (<<51, 50>>   :> << H(100), H(100), H(100), H(101), H(101), H(101),
                        H(101), H(101), H(101), H(102), H(102) >>)
 @@ (<<-1, 2>>    :> << Z(91, 24), Z(77, 45), Z(59, 59), Z(40, 69),
                        Z(19, 72), Z(0, 71), Z(-17, 64), Z(-31, 55),
                        Z(-42, 42), Z(-49, 28), Z(-51, 14) >>)

RECURSIVE IntPow(_, _)
IntPow(x, k) == IF k = 0 THEN RInt(1) ELSE RMul(x, IntPow(x, k - 1))

Pow(x, e) ==
    IF e.d = 1 THEN F(IntPow(x, e.n))
    ELSE IF x.n = 0 THEN F(RInt(0))
    ELSE PowValues[<<x.n, x.d>>][(e.n * 12) \div e.d]

----------------------------------------------------------------------------
(* The body of generate_forecast's month loop. *)

retention_factor == RDiv(revenue_retention, RInt(100))

\* 1 + g/100
GrowthBase(g) == RAdd(RInt(1), RDiv(g, RInt(100)))

\* (1 + g/100) ** (month_num/12)
Compound(g, month_num) ==
    Pow(GrowthBase(g), RDiv(RInt(month_num), RInt(12)))

\* slip: the enumerate index taken as the month number
MonthNumFromZero(idx) == idx

MonthNum(idx) == idx + 1

\* slip: March invoiced at the January-February peak
SeasonFactorFlatQ1(month_num) ==
    IF q1_seasonality
    THEN IF month_num \in {1, 2, 3} THEN R(115, 100) ELSE R(95, 100)
    ELSE RInt(1)

SeasonFactor(month_num) ==
    IF q1_seasonality
    THEN IF month_num \in {1, 2} THEN R(115, 100)
         ELSE IF month_num = 3 THEN R(105, 100)
         ELSE R(95, 100)
    ELSE RInt(1)

RevCorp(month_num) ==
    NMul(NMul(NMul(F(base_corp), Compound(corp_growth, month_num)),
              F(SeasonFactor(month_num))),
         F(retention_factor))

\* slip: fund revenue without the retention factor
RevFundNoRetention(month_num) ==
    NMul(F(base_fund), Compound(fund_growth, month_num))

RevFund(month_num) ==
    NMul(NMul(F(base_fund), Compound(fund_growth, month_num)),
         F(retention_factor))

RevAdv(month_num, random_shock) ==
    NMul(NMul(NMul(F(base_adv), Compound(advisory_growth, month_num)),
              F(random_shock)),
         F(retention_factor))

\* slip: wage inflation starting in May
InflationImpactFromMay(month_num) ==
    IF month_num > 4
    THEN RAdd(RInt(1), RDiv(wage_inflation, RInt(100)))
    ELSE RInt(1)

InflationImpact(month_num) ==
    IF month_num >= 4
    THEN RAdd(RInt(1), RDiv(wage_inflation, RInt(100)))
    ELSE RInt(1)

CostDirect(month_num) == F(RMul(base_cost, InflationImpact(month_num)))

CostOpex == F(RMul(base_opex, R(102, 100)))

\* slip: advisory revenue left out of the total
TotalRevNoAdvisory(rev_corp, rev_fund, rev_adv) == NAdd(rev_corp, rev_fund)

TotalRev(rev_corp, rev_fund, rev_adv) == NAdd(NAdd(rev_corp, rev_fund), rev_adv)

\* slip: opex added back instead of deducted
EbitdaOpexAdded(total_rev, cost_direct, cost_opex) ==
    NAdd(NSub(total_rev, cost_direct), cost_opex)

Ebitda(total_rev, cost_direct, cost_opex) ==
    NSub(NSub(total_rev, cost_direct), cost_opex)

\* slip: the noise draw applied to fund revenue too
RowShockOnFund(idx, random_shock) ==
    LET month_num == MonthNum(idx)
        rev_corp  == RevCorp(month_num)
        rev_fund  == NMul(RevFund(month_num), F(random_shock))
        rev_adv   == RevAdv(month_num, random_shock)
        cost_direct == CostDirect(month_num)
        cost_opex == CostOpex
        total_rev == TotalRev(rev_corp, rev_fund, rev_adv)
        ebitda    == Ebitda(total_rev, cost_direct, cost_opex)
    IN  [Month         |-> MonthAbbr[idx + 1],
         Month_Num     |-> month_num,
         Rev_Corporate |-> rev_corp,
         Rev_Fund      |-> rev_fund,
         Rev_Advisory  |-> rev_adv,
         Total_Revenue |-> total_rev,
         Direct_Costs  |-> NNeg(cost_direct),
         OpEx          |-> NNeg(cost_opex),
         EBITDA        |-> ebitda]

\* the dict appended for loop index idx and noise draw random_shock
Row(idx, random_shock) ==
    LET month_num == MonthNum(idx)
        rev_corp  == RevCorp(month_num)
        rev_fund  == RevFund(month_num)
        rev_adv   == RevAdv(month_num, random_shock)
        cost_direct == CostDirect(month_num)
        cost_opex == CostOpex
        total_rev == TotalRev(rev_corp, rev_fund, rev_adv)
        ebitda    == Ebitda(total_rev, cost_direct, cost_opex)
    IN  [Month         |-> MonthAbbr[idx + 1],
         Month_Num     |-> month_num,
         Rev_Corporate |-> rev_corp,
         Rev_Fund      |-> rev_fund,
         Rev_Advisory  |-> rev_adv,
         Total_Revenue |-> total_rev,
         Direct_Costs  |-> NNeg(cost_direct),
         OpEx          |-> NNeg(cost_opex),
         EBITDA        |-> ebitda]

----------------------------------------------------------------------------
(* pd.DataFrame(data): a column holding a complex value is complex128 in   *)
(* every row.                                                              *)

NumericColumns ==
    {"Rev_Corporate", "Rev_Fund", "Rev_Advisory", "Total_Revenue",
     "Direct_Costs", "OpEx", "EBITDA"}

DataFrame(rows) ==
    [k \in 1..Len(rows) |->
        [c \in DOMAIN rows[k] |->
            IF c \in NumericColumns
            THEN [rows[k][c] EXCEPT !.cx = \E j \in 1..Len(rows) : rows[j][c].cx]
            ELSE rows[k][c]]]

(* (EBITDA / Total_Revenue) * 100 on two columns.  Dividing by zero raises *)
(* nothing: a float64 cell becomes inf, -inf or nan, a complex128 cell     *)
(* nan.  The value of a finite complex quotient is not tracked.            *)
MarginCell(ebitda, total_rev) ==
    IF ebitda.cx \/ total_rev.cx
    THEN [kind |-> IF IsZero(total_rev) THEN "nan" ELSE "complex", val |-> RInt(0)]
    ELSE IF total_rev.re.n = 0
    THEN [kind |-> IF ebitda.re.n > 0 THEN "inf"
                   ELSE IF ebitda.re.n < 0 THEN "-inf" ELSE "nan",
          val |-> RInt(0)]
    ELSE [kind |-> "float",
          val |-> RMul(RDiv(ebitda.re, total_rev.re), RInt(100))]

WithMargin(df) ==
    [k \in 1..Len(df) |->
        [c \in DOMAIN df[k] \cup {"EBITDA_Margin"} |->
            IF c = "EBITDA_Margin"
            THEN MarginCell(df[k].EBITDA, df[k].Total_Revenue)
            ELSE df[k][c]]]

----------------------------------------------------------------------------
(* Inputs. *)

\* np.random.normal(1.0, 0.02): the mean and one standard deviation either side
Shocks == {RInt(1), RAdd(RInt(1), R(2, 100)), RSub(RInt(1), R(2, 100))}

\* at most this many draws of one call differ from the mean
MaxShocked == 1

Shocked(ds) == Cardinality({k \in DOMAIN ds : ds[k] # RInt(1)})

\* generate_forecast as a function of its drivers: the widgets' defaults,
\* and values below the sliders' ranges that a direct caller can pass
CorpGrowths     == {RInt(4), RInt(-100), RInt(-150)}
FundGrowths     == {RInt(9), RInt(-100)}
AdvisoryGrowths == {RInt(2), RInt(-100)}
Retentions      == {RInt(95)}
WageInflations  == {R(45, 10), RInt(0)}

\* values inside the sliders' ranges
CorpSlider      == {RInt(4)}
FundSlider      == {RInt(9)}
AdvisorySlider  == {RInt(2)}
RetentionSlider == {RInt(95), RInt(90)}
WageSlider      == {R(45, 10)}

Drivers ==
    [corp_growth       |-> corp_growth,
     fund_growth       |-> fund_growth,
     advisory_growth   |-> advisory_growth,
     revenue_retention |-> revenue_retention,
     wage_inflation    |-> wage_inflation,
     q1_seasonality    |-> q1_seasonality]

NoRun == [ran |-> FALSE, drivers |-> <<>>, draws |-> <<>>, df |-> <<>>]

----------------------------------------------------------------------------
(* The script. *)

Start ==
    /\ pc = "call"
    /\ i = 0
    /\ data = <<>>
    /\ season_factor = Unset
    /\ inflation_impact = Unset
    /\ draws = <<>>
    /\ df_monthly = <<>>
    /\ prev = NoRun

Init ==
    /\ corp_growth \in CorpGrowths
    /\ fund_growth \in FundGrowths
    /\ advisory_growth \in AdvisoryGrowths
    /\ revenue_retention \in Retentions
    /\ wage_inflation \in WageInflations
    /\ q1_seasonality \in BOOLEAN
    /\ Start

InitApp ==
    /\ corp_growth \in CorpSlider
    /\ fund_growth \in FundSlider
    /\ advisory_growth \in AdvisorySlider
    /\ revenue_retention \in RetentionSlider
    /\ wage_inflation \in WageSlider
    /\ q1_seasonality \in BOOLEAN
    /\ Start

\* slip: the list of an earlier call kept (a shared default list)
NewDataKept == data

\* data = []
NewData == <<>>

\* df_monthly = generate_forecast(revenue_retention), up to the loop
Call ==
    /\ pc = "call"
    /\ pc' = "loop"
    /\ i' = 0
    /\ data' = NewData
    /\ draws' = <<>>
    /\ season_factor' = Unset
    /\ inflation_impact' = Unset
    /\ UNCHANGED <<corp_growth, fund_growth, advisory_growth, revenue_retention,
                   wage_inflation, q1_seasonality, df_monthly, prev>>

\* one iteration of the month loop
LoopBody ==
    /\ pc = "loop"
    /\ i < NumMonths
    /\ \E random_shock \in Shocks :
        /\ random_shock # RInt(1) => Shocked(draws) < MaxShocked
        /\ draws' = Append(draws, random_shock)
        /\ data' = Append(data, Row(i, random_shock))
    /\ season_factor' = SeasonFactor(MonthNum(i))
    /\ inflation_impact' = InflationImpact(MonthNum(i))
    /\ i' = i + 1
    /\ UNCHANGED <<corp_growth, fund_growth, advisory_growth, revenue_retention,
                   wage_inflation, q1_seasonality, pc, df_monthly, prev>>

\* return pd.DataFrame(data)
Return ==
    /\ pc = "loop"
    /\ i = NumMonths
    /\ df_monthly' = DataFrame(data)
    /\ pc' = "margin"
    /\ UNCHANGED <<corp_growth, fund_growth, advisory_growth, revenue_retention,
                   wage_inflation, q1_seasonality, i, data, season_factor,
                   inflation_impact, draws, prev>>

\* df_monthly["EBITDA_Margin"] = ...
DeriveMargin ==
    /\ pc = "margin"
    /\ df_monthly' = WithMargin(df_monthly)
    /\ pc' = "done"
    /\ UNCHANGED <<corp_growth, fund_growth, advisory_growth, revenue_retention,
                   wage_inflation, q1_seasonality, i, data, season_factor,
                   inflation_impact, draws, prev>>

\* Streamlit runs the script again after an interaction with one widget
Rerun ==
    /\ pc = "done"
    /\ prev' = [ran |-> TRUE, drivers |-> Drivers, draws |-> draws, df |-> df_monthly]
    /\ pc' = "call"
    /\ df_monthly' = <<>>
    /\ \/ /\ revenue_retention' \in RetentionSlider
          /\ UNCHANGED <<corp_growth, fund_growth, advisory_growth,
                         wage_inflation, q1_seasonality>>
       \/ /\ wage_inflation' \in WageSlider
          /\ UNCHANGED <<corp_growth, fund_growth, advisory_growth,
                         revenue_retention, q1_seasonality>>
       \/ /\ q1_seasonality' \in BOOLEAN
          /\ UNCHANGED <<corp_growth, fund_growth, advisory_growth,
                         revenue_retention, wage_inflation>>
       \/ /\ corp_growth' \in CorpSlider
          /\ fund_growth' \in FundSlider
          /\ advisory_growth' \in AdvisorySlider
          /\ UNCHANGED <<revenue_retention, wage_inflation, q1_seasonality>>
    /\ UNCHANGED <<i, data, season_factor, inflation_impact, draws>>

Next == Call \/ LoopBody \/ Return \/ DeriveMargin

Spec == Init /\ [][Next]_vars

NextApp == Next \/ Rerun

SpecApp == InitApp /\ [][NextApp]_vars

----------------------------------------------------------------------------
(* Properties of one call (Spec). *)

Returned == pc \in {"margin", "done"}

\* C1: generate_forecast returns exactly 12 records whose Month_Num are
\* 1, 2, ..., 12 in this order, and the k-th record the loop appends has
\* month index k.
C1_TwelveMonthsInOrder ==
    /\ \A k \in 1..Len(data) : data[k].Month_Num = k
    /\ Returned =>
        /\ Len(df_monthly) = 12
        /\ \A k \in 1..12 : df_monthly[k].Month_Num = k

C1_Witness ==
    /\ pc = "margin"
    /\ Len(df_monthly) = 12
    /\ df_monthly[12].Month_Num = 12
    /\ corp_growth = RInt(-150)

\* a growth driver with 1 + g/100 <= 0
OutOfDomain(g) == GrowthBase(g).n <= 0

NonPositive(x) == x.re.n <= 0 /\ x.im.n = 0 /\ ~x.cx

RowBalances(r) ==
    /\ NonPositive(r.Direct_Costs)
    /\ NonPositive(r.OpEx)
    /\ r.EBITDA = NAdd(NAdd(r.Total_Revenue, r.Direct_Costs), r.OpEx)

\* C4: in every record, appended or returned, the stored Direct_Costs and
\* OpEx are <= 0 and EBITDA = Total_Revenue + Direct_Costs + OpEx (wage
\* inflation >= 0).
C4_EbitdaIsRevenuePlusStoredCosts ==
    wage_inflation.n >= 0 =>
        /\ \A k \in 1..Len(data) : RowBalances(data[k])
        /\ Returned => \A k \in 1..Len(df_monthly) : RowBalances(df_monthly[k])

C4_Witness ==
    /\ pc = "done"
    /\ wage_inflation = R(45, 10)
    /\ df_monthly[4].EBITDA.re.n < 0
    /\ df_monthly[1].EBITDA.re.n > 0
    /\ df_monthly[1].EBITDA.cx

RowTotals(r) ==
    r.Total_Revenue = NAdd(NAdd(r.Rev_Corporate, r.Rev_Fund), r.Rev_Advisory)

\* C5: in every record, appended or returned, Total_Revenue is the sum of
\* Rev_Corporate, Rev_Fund and Rev_Advisory of the same record.
C5_TotalIsSumOfSegments ==
    /\ \A k \in 1..Len(data) : RowTotals(data[k])
    /\ Returned => \A k \in 1..Len(df_monthly) : RowTotals(df_monthly[k])

C5_Witness ==
    /\ pc = "done"
    /\ \E k \in 1..12 : draws[k] # RInt(1)
    /\ df_monthly[12].Total_Revenue.re.n > 0
    /\ ~df_monthly[12].Total_Revenue.cx

\* C8: the direct-cost magnitude of month m is 520/12 for m in 1..3 and
\* (520/12) * (1 + wage_inflation/100) for m in 4..12: constant over each
\* range, one step between month 3 and month 4.
C8_WageInflationStep ==
    /\ \A k \in 1..Len(data) :
        NNeg(data[k].Direct_Costs) =
            F(RMul(R(520, 12),
                   IF k <= 3 THEN RInt(1)
                   ELSE RAdd(RInt(1), RDiv(wage_inflation, RInt(100)))))
    /\ \A k \in 1..Len(data), j \in 1..Len(data) :
        (k <= 3) = (j <= 3) => data[k].Direct_Costs = data[j].Direct_Costs
    /\ (pc = "loop" /\ i >= 1) =>
        inflation_impact = IF i <= 3 THEN RInt(1)
                           ELSE RAdd(RInt(1), RDiv(wage_inflation, RInt(100)))

C8_Witness ==
    /\ Len(data) = 12
    /\ wage_inflation = R(45, 10)
    /\ data[3].Direct_Costs = F(R(-520, 12))
    /\ data[4].Direct_Costs # data[3].Direct_Costs
    /\ data[12].Direct_Costs = data[4].Direct_Costs

----------------------------------------------------------------------------
(* Properties of two runs of the script (SpecApp): the finished run and    *)
(* the one before it.                                                      *)

TwoRuns == pc = "done" /\ prev.ran

RevenueColumns == {"Rev_Corporate", "Rev_Fund", "Rev_Advisory", "Total_Revenue"}

\* the months whose draw differs between the two runs
DrawsDifferAt == {k \in 1..12 : draws[k] # prev.draws[k]}

\* C6: two calls with the same drivers and the same sequence of noise draws
\* return the same 12 records.
C6_SameInputsSameFrame ==
    (TwoRuns /\ prev.drivers = Drivers /\ prev.draws = draws)
    => df_monthly = prev.df

C6_Witness ==
    /\ TwoRuns
    /\ prev.drivers = Drivers
    /\ prev.draws = draws
    /\ draws[5] # RInt(1)
    /\ Len(df_monthly) = 12

SeasonTable(on, m) ==
    IF ~on THEN RInt(1)
    ELSE IF m \in {1, 2} THEN R(115, 100)
    ELSE IF m = 3 THEN R(105, 100)
    ELSE R(95, 100)

\* C7: the seasonality multiplier of month m is 1.0 with Q1 seasonality off
\* and 1.15 (m = 1, 2), 1.05 (m = 3), 0.95 (m = 4..12) with it on; it scales
\* corporate revenue only: switching the flag, with the other drivers and
\* the draws the same, multiplies Rev_Corporate of month m by the ratio of
\* the two multipliers and leaves Rev_Fund and Rev_Advisory as they were.
C7_SeasonalityMultiplier ==
    /\ (pc = "loop" /\ i >= 1) => season_factor = SeasonTable(q1_seasonality, i)
    /\ (/\ TwoRuns
        /\ [prev.drivers EXCEPT !.q1_seasonality = q1_seasonality] = Drivers
        /\ prev.draws = draws)
       => \A m \in 1..12 :
            /\ NMul(df_monthly[m].Rev_Corporate,
                    F(SeasonTable(prev.drivers.q1_seasonality, m)))
               = NMul(prev.df[m].Rev_Corporate,
                      F(SeasonTable(q1_seasonality, m)))
            /\ df_monthly[m].Rev_Fund = prev.df[m].Rev_Fund
            /\ df_monthly[m].Rev_Advisory = prev.df[m].Rev_Advisory

C7_Witness ==
    /\ TwoRuns
    /\ q1_seasonality
    /\ ~prev.drivers.q1_seasonality
    /\ [prev.drivers EXCEPT !.q1_seasonality = q1_seasonality] = Drivers
    /\ prev.draws = draws
    /\ df_monthly[1].Rev_Corporate # prev.df[1].Rev_Corporate

\* C9: with the growth drivers, the seasonality flag and the draws fixed,
\* changing revenue retention from r1 to r2 multiplies Rev_Corporate,
\* Rev_Fund, Rev_Advisory and Total_Revenue of every month by r2/r1 and
\* leaves Direct_Costs and OpEx of every month unchanged.
C9_RetentionScalesRevenue ==
    (/\ TwoRuns
     /\ [prev.drivers EXCEPT !.revenue_retention = revenue_retention] = Drivers
     /\ prev.draws = draws)
    => \A m \in 1..12 :
        /\ \A c \in RevenueColumns :
            df_monthly[m][c] =
                NMul(prev.df[m][c],
                     F(RDiv(revenue_retention, prev.drivers.revenue_retention)))
        /\ df_monthly[m].Direct_Costs = prev.df[m].Direct_Costs
        /\ df_monthly[m].OpEx = prev.df[m].OpEx

C9_Witness ==
    /\ TwoRuns
    /\ revenue_retention = RInt(90)
    /\ prev.drivers.revenue_retention = RInt(95)
    /\ [prev.drivers EXCEPT !.revenue_retention = revenue_retention] = Drivers
    /\ prev.draws = draws
    /\ draws[7] # RInt(1)

FrameColumns == {"Month", "Month_Num", "Rev_Corporate", "Rev_Fund",
                 "Direct_Costs", "OpEx"}

\* C10: one call takes exactly 12 draws, the k-th in month k, and the k-th
\* draw reaches only month k's Rev_Advisory, Total_Revenue and EBITDA (and
\* the margin derived from them): with the drivers the same, two calls
\* whose draws differ only in the k-th have the same Rev_Corporate,
\* Rev_Fund, Direct_Costs and OpEx in month k and the same record in every
\* other month.
C10_DrawTouchesOnlyItsMonth ==
    /\ Len(draws) = Len(data)
    /\ Returned => Len(draws) = 12
    /\ pc # "call" =>
        \A k \in 1..Len(data) :
            data[k].Rev_Advisory =
                NMul(NMul(NMul(F(R(170, 12)), Compound(advisory_growth, k)),
                          F(draws[k])),
                     F(retention_factor))
    /\ (TwoRuns /\ prev.drivers = Drivers)
       => \A m \in 1..12 :
            /\ \A c \in FrameColumns : df_monthly[m][c] = prev.df[m][c]
            /\ m \notin DrawsDifferAt => df_monthly[m] = prev.df[m]

C10_Witness ==
    /\ TwoRuns
    /\ prev.drivers = Drivers
    /\ DrawsDifferAt = {4}
    /\ df_monthly[4].Rev_Advisory # prev.df[4].Rev_Advisory
    /\ df_monthly[4].EBITDA # prev.df[4].EBITDA

============================================================================
